---- MODULE Spec2Model ----
(***************************************************************************)
(* A model of the kilo editor (src/main.go): the row buffer with the Go    *)
(* slices that back it, the cursor, the viewport, the key dispatcher and   *)
(* the escape-sequence decoder.                                            *)
(*                                                                         *)
(* The editor state is the record E: the fields of the global struct E of  *)
(* main.go, and with them the Go heap the rows' chars slices point into    *)
(* (heap), the panic the last operation raised (fault) and the library     *)
(* build (build), because slices.Insert / slices.Delete differ between     *)
(* releases of golang.org/x/exp/slices in how they grow and clear storage. *)
(* Every operation of main.go is an operator from such a record to such a  *)
(* record, so that operations compose as they do in the code.              *)
(***************************************************************************)
EXTENDS Integers, Sequences, FiniteSets, TLC

\* ------------------------------------------------------------------ bounds
MaxEdits == 2
ScreenRows == 2
ScreenCols == 3
MaxRowoff == 5
MaxColoff == 9
MaxInput == 2
MaxIdx == 2
MaxRowLen == 3

\* --------------------------------------------------------------- constants
tabstop == 8
Tab == 9
Newline == 10
CarriageReturn == 13
Escape == 27
Space == 32
Digit0 == 48
Digit9 == 57
BackspaceKey == 127
ArrowLeft == 1001
ArrowRight == 1002
ArrowUp == 1003
ArrowDown == 1004
PageUp == 1005
PageDown == 1006
HomeKey == 1007
EndKey == 1008
DeleteKey == 1009
HighlightNormal == 0
HighlightNumber == 1
HighlightMatch == 2

controlKey(c) == c % 32

\* The bytes the model types: tab and 'a'.
InsertBytes == {9, 97}

\* The two library builds: "make" grows a slice in slices.Insert with
\* make(S, tot) and leaves the tail after slices.Delete; "append" grows it with
\* append (rounded up to a size class) and clears the tail after slices.Delete.
Builds == {"make", "append"}

\* -------------------------------------------------------------- sequences
Min(a, b) == IF a < b THEN a ELSE b

Take(q, n) == SubSeq(q, 1, n)

Drop(q, n) == SubSeq(q, n + 1, Len(q))

Zeros(n) == [i \in 1..n |-> 0]

\* A cell of an array holds a byte, or Fresh when the allocation zeroed it and
\* nothing was written to it since (it reads as 0), or Stale when it was written
\* and no row's slice covers it any more.
Fresh == 0 - 2

Stale == 0 - 1

FreshCells(n) == [i \in 1..n |-> Fresh]

ReadCell(v) == IF v = Fresh THEN 0 ELSE v

\* ----------------------------------------------------------- Go byte slices
\* A slice is [a, off, len]: array a of the heap (0: the nil slice), the offset
\* of its first byte in the array, and its length. Its capacity is what is left
\* of the array from the offset on.
NilSlice == [a |-> 0, off |-> 0, len |-> 0]

IsNil(sl) == sl.a = 0

Cap(h, sl) == IF sl.a = 0 THEN 0 ELSE Len(h[sl.a]) - sl.off

Bytes(h, sl) == [i \in 1..sl.len |-> ReadCell(h[sl.a][sl.off + i])]

\* s[:n] read as far as the capacity allows (n may exceed the length).
BytesUpTo(h, sl, n) == [i \in 1..n |-> ReadCell(h[sl.a][sl.off + i])]

\* The runtime's size classes for a byte allocation.
roundupsize(n) ==
    IF n <= 0 THEN 0
    ELSE IF n <= 32 THEN ((n + 7) \div 8) * 8
    ELSE ((n + 15) \div 16) * 16

\* growslice: the capacity append gives a slice of capacity oldCap that must
\* hold newLen bytes.
growslice(oldCap, newLen) ==
    IF newLen > 2 * oldCap THEN roundupsize(newLen) ELSE roundupsize(2 * oldCap)

\* A fresh array holding bytes q, of capacity c: [heap, slice].
Alloc(h, q, c) ==
    [heap |-> Append(h, q \o FreshCells(c - Len(q))),
     sl |-> [a |-> Len(h) + 1, off |-> 0, len |-> Len(q)]]

\* Writes bytes q into the array of sl from position at (0-based, within the
\* slice), and makes the slice n long.
WriteAt(h, sl, at, q, n) ==
    [heap |-> [h EXCEPT ![sl.a] =
                  [i \in 1..Len(h[sl.a]) |->
                      IF i > sl.off + at /\ i <= sl.off + at + Len(q)
                      THEN q[i - sl.off - at] ELSE h[sl.a][i]]],
     sl |-> [sl EXCEPT !.len = n]]

\* slices.Clone(sc.Bytes()): append to an empty slice.
Clone(h, q) == Alloc(h, q, roundupsize(Len(q)))

\* slices.Insert(s, i, v), 0 <= i <= len(s): in place when the capacity allows.
SlicesInsert(build, h, sl, i, v) ==
    LET old == Bytes(h, sl)
        tot == sl.len + 1
        new == Take(old, i) \o <<v>> \o Drop(old, i)
    IN  IF tot <= Cap(h, sl)
        THEN WriteAt(h, sl, i, <<v>> \o Drop(old, i), tot)
        ELSE IF build = "make"
        THEN Alloc(h, new, tot)
        ELSE Alloc(h, new, growslice(Cap(h, sl), tot))

\* slices.Delete(s, i, i+1), 0 <= i < len(s): shifts the tail left in place.
SlicesDelete(build, h, sl, i) ==
    LET old == Bytes(h, sl)
        tail == Drop(old, i + 1)
    IN  WriteAt(h, sl, i,
                IF build = "append" THEN tail \o <<0>> ELSE tail,
                sl.len - 1)

\* append(s, q...): in place when the capacity allows.
GoAppend(h, sl, q) ==
    IF Len(q) = 0 THEN [heap |-> h, sl |-> sl]
    ELSE IF sl.len + Len(q) <= Cap(h, sl)
    THEN WriteAt(h, sl, sl.len, q, sl.len + Len(q))
    ELSE Alloc(h, Bytes(h, sl) \o q, growslice(Cap(h, sl), sl.len + Len(q)))

\* --------------------------------------------------------------------- Row
\* The tab expansion Row.Update computes: out is the render built so far.
RECURSIVE Expand(_, _)
Expand(q, out) ==
    IF Len(q) = 0 THEN out
    ELSE IF Head(q) = Tab
    THEN Expand(Tail(q),
                out \o [i \in 1..(tabstop - (Len(out) % tabstop)) |-> Space])
    ELSE Expand(Tail(q), Append(out, Head(q)))

\* Row.UpdateSyntax: hl is reallocated when shorter than render, and its first
\* len(render) tags are recomputed.
UpdateSyntax(r) ==
    LET base == IF Len(r.hl) < Len(r.render) THEN Zeros(Len(r.render)) ELSE r.hl
    IN  [r EXCEPT !.hl =
            [i \in 1..Len(base) |->
                IF i <= Len(r.render)
                THEN IF Digit0 <= r.render[i] /\ r.render[i] <= Digit9
                     THEN HighlightNumber ELSE HighlightNormal
                ELSE base[i]]]

\* Row.Update
Update(h, r) == UpdateSyntax([r EXCEPT !.render = Expand(Bytes(h, r.chars), <<>>)])

\* Row.Len
RowLen(r) == r.chars.len

\* Row.CxToRx: r.chars[:cx] panics when cx exceeds the capacity.
CxToRxPanics(h, r, cx) == cx < 0 \/ cx > Cap(h, r.chars)

\* A faulty walk: a tab always advances by the whole tab stop.
RECURSIVE CxToRxWalkWide(_, _)
CxToRxWalkWide(q, rx) ==
    IF Len(q) = 0 THEN rx
    ELSE IF Head(q) = Tab
    THEN CxToRxWalkWide(Tail(q), rx + tabstop)
    ELSE CxToRxWalkWide(Tail(q), rx + 1)

\* The loop of Row.CxToRx over the bytes of r.chars[:cx].
RECURSIVE CxToRxWalk(_, _)
CxToRxWalk(q, rx) ==
    IF Len(q) = 0 THEN rx
    ELSE IF Head(q) = Tab
    THEN CxToRxWalk(Tail(q), rx + ((tabstop - 1) - (rx % tabstop)) + 1)
    ELSE CxToRxWalk(Tail(q), rx + 1)

CxToRx(h, r, cx) == CxToRxWalk(BytesUpTo(h, r.chars, cx), 0)

\* ------------------------------------------------------------------ faults
Ok(s) == s.fault = "none"

Panic(s, why) == [s EXCEPT !.fault = why]

\* rows[i] (0-based) of the state, and the state with that row replaced.
RowAt(s, i) == s.rows[i + 1]

SetRow(s, i, hr) ==
    [s EXCEPT !.heap = hr.heap, !.rows[i + 1] = hr.row]

\* Row.Truncate on rows[i]
Truncate(s, i, n) ==
    LET r == RowAt(s, i)
    IN  IF RowLen(r) > n
        THEN LET r2 == [r EXCEPT !.chars.len = n]
             IN  SetRow(s, i, [heap |-> s.heap, row |-> Update(s.heap, r2)])
        ELSE s

\* Row.InsertChar on rows[i]
RowInsertChar(s, i, at0, c) ==
    LET r == RowAt(s, i)
        at == IF at0 < 0 \/ at0 > RowLen(r) THEN RowLen(r) ELSE at0
        ins == SlicesInsert(s.build, s.heap, r.chars, at, c)
        r2 == [r EXCEPT !.chars = ins.sl]
    IN  SetRow(s, i, [heap |-> ins.heap, row |-> Update(ins.heap, r2)])

\* Row.DeleteChar on rows[i]: slices.Delete panics when at = len.
RowDeleteChar(s, i, at) ==
    LET r == RowAt(s, i)
    IN  IF at < 0 \/ at > RowLen(r) THEN s
        ELSE IF at + 1 > RowLen(r) THEN Panic(s, "slice bounds out of range")
        ELSE LET del == SlicesDelete(s.build, s.heap, r.chars, at)
                 r2 == [r EXCEPT !.chars = del.sl]
             IN  SetRow(s, i, [heap |-> del.heap, row |-> Update(del.heap, r2)])

\* Row.Append on rows[i]
RowAppend(s, i, q) ==
    LET r == RowAt(s, i)
        app == GoAppend(s.heap, r.chars, q)
        r2 == [r EXCEPT !.chars = app.sl]
    IN  SetRow(s, i, [heap |-> app.heap, row |-> Update(app.heap, r2)])

\* ------------------------------------------------------------ Text buffer
\* &Row{chars: chars} followed by row.Update(): render and hl start nil.
NewRow(h, chars) == Update(h, [chars |-> chars, render |-> <<>>, hl |-> <<>>])

\* editorInsertRow: slices.Insert(E.rows, at, row) panics unless 0 <= at <= len.
editorInsertRow(s, at, chars) ==
    IF at < 0 \/ at > Len(s.rows) THEN Panic(s, "slice bounds out of range")
    ELSE [s EXCEPT !.rows = Take(s.rows, at) \o <<NewRow(s.heap, chars)>>
                                \o Drop(s.rows, at),
                   !.numrows = s.numrows + 1,
                   !.dirty = TRUE]

\* editorDeleteRow
editorDeleteRow(s, at) ==
    IF at < 0 \/ at >= s.numrows THEN s
    ELSE IF s.cx = 0 /\ s.cy = 0 THEN s
    ELSE [s EXCEPT !.rows = Take(s.rows, at) \o Drop(s.rows, at + 1),
                   !.numrows = s.numrows - 1,
                   !.dirty = TRUE]

\* editorInsertChar
editorInsertChar(s, c) ==
    LET s1 == IF s.cy = s.numrows THEN editorInsertRow(s, s.numrows, NilSlice)
              ELSE s
    IN  IF ~Ok(s1) THEN s1
        ELSE IF s1.cy < 0 \/ s1.cy >= Len(s1.rows)
        THEN Panic(s1, "index out of range")
        ELSE [RowInsertChar(s1, s1.cy, s1.cx, c) EXCEPT
                  !.cx = s1.cx + 1, !.dirty = TRUE]

\* editorDeleteChar
editorDeleteChar(s) ==
    IF s.cy = s.numrows THEN s
    ELSE IF s.cx = 0 /\ s.cy = 0 THEN s
    ELSE IF s.cy < 0 \/ s.cy >= Len(s.rows) THEN Panic(s, "index out of range")
    ELSE IF s.cx > 0
    THEN LET s1 == RowDeleteChar(s, s.cy, s.cx - 1)
         IN  IF Ok(s1) THEN [s1 EXCEPT !.cx = s.cx - 1] ELSE s1
    ELSE LET row == RowAt(s, s.cy)
             s1 == [s EXCEPT !.cx = RowLen(RowAt(s, s.cy - 1))]
             s2 == RowAppend(s1, s.cy - 1, Bytes(s.heap, row.chars))
             s3 == editorDeleteRow(s2, s2.cy)
         IN  [s3 EXCEPT !.cy = s3.cy - 1]

\* A faulty editorInsertNewline: the row split is not truncated, and keeps the
\* bytes that went to the new row.
editorInsertNewlineKeeps(s) ==
    LET s1 ==
          IF s.cx = 0 THEN editorInsertRow(s, s.cy, NilSlice)
          ELSE IF s.cy < 0 \/ s.cy >= Len(s.rows)
          THEN Panic(s, "index out of range")
          ELSE IF s.cx < 0 \/ s.cx > RowLen(RowAt(s, s.cy))
          THEN Panic(s, "slice bounds out of range")
          ELSE LET sl == RowAt(s, s.cy).chars
                   suffix == [a |-> sl.a, off |-> sl.off + s.cx,
                              len |-> sl.len - s.cx]
               IN  editorInsertRow(s, s.cy + 1, suffix)
    IN  IF Ok(s1) THEN [s1 EXCEPT !.cy = s.cy + 1, !.cx = 0] ELSE s1

\* editorInsertNewline: E.rows[E.cy] panics on the row past the end, and
\* chars[E.cx:] panics when cx exceeds the length.
editorInsertNewline(s) ==
    LET s1 ==
          IF s.cx = 0 THEN editorInsertRow(s, s.cy, NilSlice)
          ELSE IF s.cy < 0 \/ s.cy >= Len(s.rows)
          THEN Panic(s, "index out of range")
          ELSE IF s.cx < 0 \/ s.cx > RowLen(RowAt(s, s.cy))
          THEN Panic(s, "slice bounds out of range")
          ELSE LET sl == RowAt(s, s.cy).chars
                   suffix == [a |-> sl.a, off |-> sl.off + s.cx,
                              len |-> sl.len - s.cx]
                   t == editorInsertRow(s, s.cy + 1, suffix)
               IN  IF Ok(t) THEN Truncate(t, t.cy, t.cx) ELSE t
    IN  IF Ok(s1) THEN [s1 EXCEPT !.cy = s.cy + 1, !.cx = 0] ELSE s1

\* ---------------------------------------------------------------- cursor
\* The clamp that ends editorMoveCursor.
ClampCx(s) ==
    IF s.cy < s.numrows
    THEN IF s.cy < 0 \/ s.cy >= Len(s.rows) THEN Panic(s, "index out of range")
         ELSE IF s.cx > RowLen(RowAt(s, s.cy))
         THEN [s EXCEPT !.cx = RowLen(RowAt(s, s.cy))]
         ELSE s
    ELSE s

\* editorMoveCursor: row is nil on the row past the end, and ArrowRight
\* dereferences it.
editorMoveCursor(s, c) ==
    LET hasRow == s.cy < s.numrows
        s1 ==
          IF c = ArrowUp
          THEN IF s.cy > 0 THEN [s EXCEPT !.cy = s.cy - 1] ELSE s
          ELSE IF c = ArrowDown
          THEN IF s.cy < s.numrows THEN [s EXCEPT !.cy = s.cy + 1] ELSE s
          ELSE IF c = ArrowLeft
          THEN IF s.cx > 0 THEN [s EXCEPT !.cx = s.cx - 1]
               ELSE IF s.cy > 0
               THEN IF s.cy - 1 >= Len(s.rows)
                    THEN Panic(s, "index out of range")
                    ELSE [s EXCEPT !.cy = s.cy - 1,
                                   !.cx = RowLen(RowAt(s, s.cy - 1))]
               ELSE s
          ELSE IF c = ArrowRight
          THEN IF ~hasRow THEN Panic(s, "nil pointer dereference")
               ELSE LET row == RowAt(s, s.cy)
                    IN  IF ~IsNil(row.chars) /\ s.cx < RowLen(row)
                        THEN [s EXCEPT !.cx = s.cx + 1]
                        ELSE IF ~IsNil(row.chars) /\ s.cx = RowLen(row)
                        THEN [s EXCEPT !.cy = s.cy + 1, !.cx = 0]
                        ELSE s
          ELSE s
    IN  IF Ok(s1) THEN ClampCx(s1) ELSE s1

\* n calls of editorMoveCursor(c), as the page keys make.
RECURSIVE MoveCursorTimes(_, _, _)
MoveCursorTimes(s, c, n) ==
    IF n = 0 \/ ~Ok(s) THEN s
    ELSE MoveCursorTimes(editorMoveCursor(s, c), c, n - 1)

\* -------------------------------------------------------------- viewport
\* A faulty editorScroll: the window follows the cursor down and right one
\* position late, so that the cursor may lie just past its last row or column.
editorScrollLate(s) ==
    IF s.cy < s.numrows /\ CxToRxPanics(s.heap, RowAt(s, s.cy), s.cx)
    THEN Panic(s, "slice bounds out of range")
    ELSE LET rx == IF s.cy < s.numrows
                   THEN CxToRx(s.heap, RowAt(s, s.cy), s.cx) ELSE 0
             ro1 == IF s.cy < s.rowoff THEN s.cy ELSE s.rowoff
             ro2 == IF s.cy > ro1 + s.screenrows
                    THEN s.cy - s.screenrows + 1 ELSE ro1
             co1 == IF rx < s.coloff THEN rx ELSE s.coloff
             co2 == IF rx > co1 + s.screencols
                    THEN rx - s.screencols + 1 ELSE co1
         IN  [s EXCEPT !.rx = rx, !.rowoff = ro2, !.coloff = co2]

\* editorScroll
editorScroll(s) ==
    IF s.cy < s.numrows /\ CxToRxPanics(s.heap, RowAt(s, s.cy), s.cx)
    THEN Panic(s, "slice bounds out of range")
    ELSE LET rx == IF s.cy < s.numrows
                   THEN CxToRx(s.heap, RowAt(s, s.cy), s.cx) ELSE 0
             ro1 == IF s.cy < s.rowoff THEN s.cy ELSE s.rowoff
             ro2 == IF s.cy >= ro1 + s.screenrows
                    THEN s.cy - s.screenrows + 1 ELSE ro1
             co1 == IF rx < s.coloff THEN rx ELSE s.coloff
             co2 == IF rx >= co1 + s.screencols
                    THEN rx - s.screencols + 1 ELSE co1
         IN  [s EXCEPT !.rx = rx, !.rowoff = ro2, !.coloff = co2]

\* ------------------------------------------------------------- file I/O
\* dropCR of bufio.ScanLines
dropCR(q) ==
    IF Len(q) > 0 /\ q[Len(q)] = CarriageReturn THEN Take(q, Len(q) - 1) ELSE q

\* bufio.ScanLines over the whole file: the lines sc.Scan() yields; cur is the
\* line being read, out the lines read.
RECURSIVE ScanLines(_, _, _)
ScanLines(data, cur, out) ==
    IF Len(data) = 0
    THEN IF Len(cur) = 0 THEN out ELSE Append(out, dropCR(cur))
    ELSE IF Head(data) = Newline
    THEN ScanLines(Tail(data), <<>>, Append(out, dropCR(cur)))
    ELSE ScanLines(Tail(data), Append(cur, Head(data)), out)

\* The raw bytes of every row, in order.
Contents(s) == [i \in 1..Len(s.rows) |-> Bytes(s.heap, s.rows[i].chars)]

\* writeRowsTo: the bytes written, each row followed by "\n".
RECURSIVE writeRowsTo(_)
writeRowsTo(lines) ==
    IF Len(lines) = 0 THEN <<>>
    ELSE Head(lines) \o <<Newline>> \o writeRowsTo(Tail(lines))

\* The loop of editorOpen over the scanned lines.
RECURSIVE OpenLines(_, _)
OpenLines(s, lines) ==
    IF Len(lines) = 0 \/ ~Ok(s) THEN s
    ELSE LET cl == Clone(s.heap, Head(lines))
         IN  OpenLines(editorInsertRow([s EXCEPT !.heap = cl.heap],
                                       s.numrows, cl.sl),
                       Tail(lines))

\* editorOpen, the file opened and read without error.
editorOpen(s, filename, data) ==
    OpenLines([s EXCEPT !.filename = filename], ScanLines(data, <<>>, <<>>))

\* editorSave with a file name set, the file written without error.
editorSave(s) == [s EXCEPT !.dirty = FALSE]

\* ------------------------------------------------------------ dispatcher
\* editorProcessKeypress for a decoded key c other than the quit, save and
\* find control keys.
editorProcessKeypress(s, c) ==
    IF c \in {ArrowUp, ArrowDown, ArrowLeft, ArrowRight}
    THEN editorMoveCursor(s, c)
    ELSE IF c = PageUp
    THEN MoveCursorTimes([s EXCEPT !.cy = s.rowoff], ArrowUp, s.screenrows)
    ELSE IF c = PageDown
    THEN LET cy1 == s.rowoff + s.screenrows - 1
             cy2 == IF cy1 > s.numrows THEN s.numrows ELSE cy1
         IN  MoveCursorTimes([s EXCEPT !.cy = cy2], ArrowDown, s.screenrows)
    ELSE IF c = HomeKey
    THEN [s EXCEPT !.cx = 0]
    ELSE IF c = EndKey
    THEN IF s.cy < s.numrows
         THEN IF s.cy < 0 \/ s.cy >= Len(s.rows)
              THEN Panic(s, "index out of range")
              ELSE [s EXCEPT !.cx = RowLen(RowAt(s, s.cy))]
         ELSE s
    ELSE IF c = CarriageReturn
    THEN editorInsertNewline(s)
    ELSE IF c = DeleteKey
    THEN LET s1 == editorMoveCursor(s, ArrowRight)
         IN  IF Ok(s1) THEN editorDeleteChar(s1) ELSE s1
    ELSE IF c \in {controlKey(104), BackspaceKey}
    THEN editorDeleteChar(s)
    ELSE IF c \in {controlKey(108), Escape}
    THEN s
    ELSE editorInsertChar(s, c)

\* The heap with the arrays no row points into dropped and the others numbered
\* in the order the rows use them: array identity is not observable.
RECURSIVE ArrayOrder(_, _)
ArrayOrder(rows, acc) ==
    IF Len(rows) = 0 THEN acc
    ELSE LET a == Head(rows).chars.a
         IN  ArrayOrder(Tail(rows),
                        IF a = 0 \/ (\E i \in 1..Len(acc) : acc[i] = a)
                        THEN acc ELSE Append(acc, a))

\* The cells no row's slice covers become Stale unless they are still Fresh: a
\* Stale cell can be read again only through a slice expression that reaches
\* past a row's length.
Collect(s) ==
    LET ord == ArrayOrder(s.rows, <<>>)
        idx(a) == IF a = 0 THEN 0 ELSE CHOOSE i \in 1..Len(ord) : ord[i] = a
        live(a, p) ==
            \E j \in 1..Len(s.rows) :
                /\ s.rows[j].chars.a = a
                /\ s.rows[j].chars.off < p
                /\ p <= s.rows[j].chars.off + s.rows[j].chars.len
    IN  [s EXCEPT !.heap = [i \in 1..Len(ord) |->
                               [p \in 1..Len(s.heap[ord[i]]) |->
                                   IF live(ord[i], p) \/ s.heap[ord[i]][p] = Fresh
                                   THEN s.heap[ord[i]][p] ELSE Stale]],
                  !.rows = [j \in 1..Len(s.rows) |->
                               [s.rows[j] EXCEPT !.chars.a = idx(@)]]]

\* One turn of the loop of main from the read of a key on: the key is
\* dispatched, and editorRefreshScreen recomputes the scroll.
Turn(s, c) ==
    LET s1 == Collect(editorProcessKeypress(s, c))
    IN  IF Ok(s1) THEN editorScroll(s1) ELSE s1

\* ----------------------------------------------------------- input decoder
\* The bytes the terminal may send: ESC [ O ~ 0..9 A..H a.
StdinBytes == {27, 91, 79, 126, 97} \cup (48..57) \cup (65..72)

\* The outcome of one unix.Read of one byte: a byte, no byte within the wait
\* (n = 0), or an error other than EAGAIN (n = -1).
NoByte == 0 - 1

ReadError == 0 - 2

ReadOutcomes == StdinBytes \cup {NoByte, ReadError}

\* The switch on seq[1] after ESC [ (the arrow keys); c when nothing matches.
ArrowSwitch(c, s1) ==
    IF s1 = 65 THEN ArrowUp
    ELSE IF s1 = 66 THEN ArrowDown
    ELSE IF s1 = 67 THEN ArrowRight
    ELSE IF s1 = 68 THEN ArrowLeft
    ELSE IF s1 = 72 THEN HomeKey
    ELSE IF s1 = 70 THEN EndKey
    ELSE c

\* A faulty switch on the digit: 7 and 8 are not among its cases.
TildeSwitchShort(c, s1, s2) ==
    IF s2 = 126 /\ s1 = 51 THEN DeleteKey
    ELSE IF s2 = 126 /\ s1 = 53 THEN PageUp
    ELSE IF s2 = 126 /\ s1 = 54 THEN PageDown
    ELSE IF s2 = 126 /\ s1 = 49 THEN HomeKey
    ELSE IF s2 = 126 /\ s1 = 52 THEN EndKey
    ELSE ArrowSwitch(c, s1)

\* ESC [ digit and a third byte: the switch on the digit when the third byte
\* is ~, and otherwise, or when no case matches, the arrow switch.
TildeSwitch(c, s1, s2) ==
    IF s2 = 126 /\ s1 = 51 THEN DeleteKey
    ELSE IF s2 = 126 /\ s1 = 53 THEN PageUp
    ELSE IF s2 = 126 /\ s1 = 54 THEN PageDown
    ELSE IF s2 = 126 /\ s1 \in {49, 55} THEN HomeKey
    ELSE IF s2 = 126 /\ s1 \in {52, 56} THEN EndKey
    ELSE ArrowSwitch(c, s1)

\* ESC O and a second byte.
SS3Switch(c, s1) ==
    IF s1 = 72 THEN HomeKey
    ELSE IF s1 = 70 THEN EndKey
    ELSE c

\* editorReadKey, one unix.Read at a time. k is [pc, c, seq, ret]: the read the
\* decoder is at, the first byte, the bytes read after it and the key returned.
\* r is the outcome of the read.
ReadKeyStart == [pc |-> "first", c |-> 0, seq |-> <<>>, ret |-> 0]

ReadKeyIdle == [pc |-> "idle", c |-> 0, seq |-> <<>>, ret |-> 0]

Return(k, key) == [k EXCEPT !.pc = "done", !.ret = key]

editorReadKey(k, r) ==
    IF k.pc = "first"
    THEN IF r = ReadError THEN [k EXCEPT !.pc = "died"]
         ELSE IF r = NoByte THEN k
         ELSE IF r = Escape THEN [k EXCEPT !.pc = "seq0", !.c = r]
         ELSE Return([k EXCEPT !.c = r], r)
    ELSE IF k.pc = "seq0"
    THEN IF r \in {NoByte, ReadError} THEN Return(k, k.c)
         ELSE [k EXCEPT !.pc = "seq1", !.seq = <<r>>]
    ELSE IF k.pc = "seq1"
    THEN IF r \in {NoByte, ReadError} THEN Return(k, k.c)
         ELSE LET k1 == [k EXCEPT !.seq = Append(k.seq, r)]
              IN  IF k.seq[1] = 91
                  THEN IF r >= 48 /\ r <= 57
                       THEN [k1 EXCEPT !.pc = "seq2"]
                       ELSE Return(k1, ArrowSwitch(k.c, r))
                  ELSE IF k.seq[1] = 79
                  THEN Return(k1, SS3Switch(k.c, r))
                  ELSE Return(k1, k.c)
    ELSE IF k.pc = "seq2"
    THEN IF r \in {NoByte, ReadError} THEN Return(k, k.c)
         ELSE Return([k EXCEPT !.seq = Append(k.seq, r)],
                     TildeSwitch(k.c, k.seq[2], r))
    ELSE k

\* ----------------------------------------------------------- state machine
\* E: the editor (struct E of main.go, with heap, fault and build).
\* saved: the raw bytes of the rows when the file was last loaded or saved.
\* edits: the number of editing keys dispatched so far.
\* phase, before: the position in a two-key sequence under study, and the
\*   editor as it was when the sequence began.
\* rk: the escape-sequence decoder.
\* tty: the terminal, its mode and the events the process made on it.
\* find: the search session, the prompt input and the matches of editorFind.
VARIABLES E, saved, edits, phase, before, rk, tty, find

vars == <<E, saved, edits, phase, before, rk, tty, find>>

\* The struct E after initEditor, with an empty heap.
InitEditor(build) ==
    [screenrows |-> ScreenRows, screencols |-> ScreenCols,
     cx |-> 0, cy |-> 0, rx |-> 0, numrows |-> 0, rowoff |-> 0, coloff |-> 0,
     rows |-> <<>>, filename |-> "", dirty |-> FALSE,
     heap |-> <<>>, fault |-> "none", build |-> build]

\* The files the editor is started on: "\t1\n" and "a\n\na" (no final newline).
Files == {<<9, 49, 10>>, <<97, 10, 10, 97>>}

\* main up to the loop: no argument, or a file to open.
InitMain ==
    /\ \E build \in Builds :
          \/ /\ E = Collect(editorScroll(InitEditor(build)))
             /\ saved = <<>>
          \/ \E data \in Files :
                /\ E = Collect(editorScroll(editorOpen(InitEditor(build), "f", data)))
                /\ saved = ScanLines(data, <<>>, <<>>)
    /\ edits = 0
    /\ phase = "edit"
    /\ before = <<>>

\* enableRawMode has run: the terminal is in raw mode and nothing was written.
TtyStart == [mode |-> "raw", log |-> <<>>]

\* No search session.
FindIdle == [input |-> <<>>, query |-> <<>>, matches |-> <<>>, matchidx |-> 0,
             used |-> FALSE, hit |-> FALSE, ok |-> FALSE]

Init == InitMain /\ rk = ReadKeyIdle /\ tty = TtyStart /\ find = FindIdle

Running == Ok(E) /\ phase = "edit"

CanEdit == edits < MaxEdits

Moved(c) ==
    /\ Running
    /\ E' = Turn(E, c)
    /\ UNCHANGED <<saved, edits, phase, before, rk, tty, find>>

Edited(c) ==
    /\ Running
    /\ CanEdit
    /\ E' = Turn(E, c)
    /\ edits' = edits + 1
    /\ UNCHANGED <<saved, phase, before, rk, tty, find>>

KeyArrow == \E c \in {ArrowUp, ArrowDown, ArrowLeft, ArrowRight} : Moved(c)

KeyPageUp == Moved(PageUp)

KeyPageDown == Moved(PageDown)

KeyHome == Moved(HomeKey)

KeyEnd == Moved(EndKey)

KeyIgnored == \E c \in {controlKey(108), Escape} : Moved(c)

KeyEnter == Edited(CarriageReturn)

KeyDelete == Edited(DeleteKey)

KeyBackspace == \E c \in {controlKey(104), BackspaceKey} : Edited(c)

KeyInsert == \E c \in InsertBytes : Edited(c)

Next ==
    \/ KeyArrow
    \/ KeyPageUp
    \/ KeyPageDown
    \/ KeyHome
    \/ KeyEnd
    \/ KeyIgnored
    \/ KeyEnter
    \/ KeyDelete
    \/ KeyBackspace
    \/ KeyInsert

Spec == Init /\ [][Next]_vars

\* Ctrl-J (line feed): a control byte the dispatcher has no case for, so that
\* it reaches the default branch.
KeyControl == Edited(controlKey(106))

NextControl == Next \/ KeyControl

SpecControl == Init /\ [][NextControl]_vars

\* Ctrl-S with a file name set.
KeySave ==
    /\ Running
    /\ E.filename # ""
    /\ E' = editorScroll(editorSave(E))
    /\ saved' = Contents(E)
    /\ UNCHANGED <<edits, phase, before, rk, tty, find>>

NextSave == Next \/ KeySave

SpecSave == Init /\ [][NextSave]_vars

\* The cursor is on a row, within it.
OnRow(s) == s.cy < s.numrows /\ 0 <= s.cx /\ s.cx <= RowLen(RowAt(s, s.cy))

\* A byte is inserted, and Backspace is the next key.
ProbeInsert ==
    /\ Running
    /\ OnRow(E)
    /\ \E c \in InsertBytes : E' = Turn(E, c)
    /\ before' = E
    /\ phase' = "inserted"
    /\ UNCHANGED <<saved, edits, rk, tty, find>>

ProbeDelete ==
    /\ phase = "inserted"
    /\ Ok(E)
    /\ E' = Turn(E, BackspaceKey)
    /\ phase' = "deleted"
    /\ UNCHANGED <<saved, edits, before, rk, tty, find>>

NextInsertDelete == Next \/ ProbeInsert \/ ProbeDelete

SpecInsertDelete == Init /\ [][NextInsertDelete]_vars

\* Enter, and Backspace is the next key.
ProbeEnter ==
    /\ Running
    /\ OnRow(E)
    /\ E' = Turn(E, CarriageReturn)
    /\ before' = E
    /\ phase' = "split"
    /\ UNCHANGED <<saved, edits, rk, tty, find>>

ProbeBackspace ==
    /\ phase = "split"
    /\ Ok(E)
    /\ E' = Turn(E, BackspaceKey)
    /\ phase' = "joined"
    /\ UNCHANGED <<saved, edits, before, rk, tty, find>>

NextSplitJoin == Next \/ ProbeEnter \/ ProbeBackspace

SpecSplitJoin == Init /\ [][NextSplitJoin]_vars

\* The decoder alone: editorReadKey is called, and each step is one read.
InitReadKey ==
    /\ E = Collect(editorScroll(InitEditor("make")))
    /\ saved = <<>>
    /\ edits = 0
    /\ phase = "edit"
    /\ before = <<>>
    /\ rk = ReadKeyStart
    /\ tty = TtyStart
    /\ find = FindIdle

ReadFirst ==
    /\ rk.pc = "first"
    /\ \E r \in ReadOutcomes : rk' = editorReadKey(rk, r)
    /\ UNCHANGED <<E, saved, edits, phase, before, tty, find>>

ReadSeq ==
    /\ rk.pc \in {"seq0", "seq1", "seq2"}
    /\ \E r \in ReadOutcomes : rk' = editorReadKey(rk, r)
    /\ UNCHANGED <<E, saved, edits, phase, before, tty, find>>

NextReadKey == ReadFirst \/ ReadSeq

SpecReadKey == InitReadKey /\ [][NextReadKey]_vars

\* editorScroll called with the offsets at any values from 0 up, rowoff at
\* numrows (where the search puts it before a jump) among them.
ScrollFrom ==
    /\ Running
    /\ \E ro \in 0..MaxRowoff, co \in 0..MaxColoff :
          E' = editorScroll([E EXCEPT !.rowoff = ro, !.coloff = co])
    /\ phase' = "scrolled"
    /\ before' = E
    /\ UNCHANGED <<saved, edits, rk, tty, find>>

NextScroll == Next \/ ScrollFrom

SpecScroll == Init /\ [][NextScroll]_vars

\* ---------------------------------------------------------------- claims
\* C1: the cursor clamp invariant. In every state reached by key events,
\* 0 <= cy <= numrows, and cx <= len(rows[cy].chars) whenever cy < numrows.
C1_CursorClamp ==
    Ok(E) =>
        /\ 0 <= E.cy
        /\ E.cy <= E.numrows
        /\ E.cy < E.numrows => E.cx <= RowLen(RowAt(E, E.cy))

\* C2: no key sequence makes the editor index a row or a column past the end,
\* or dereference an absent row: no dispatch and no scroll panics.
C2_NoOutOfRange == E.fault = "none"

\* C3: render consistency. After every completed key dispatch, the render of
\* every row is the tab expansion of its chars.
C3_RenderConsistent ==
    Ok(E) =>
        \A i \in 1..Len(E.rows) :
            E.rows[i].render = Expand(Bytes(E.heap, E.rows[i].chars), <<>>)

\* C4: each row owns its raw bytes. An insertion into row cy, or a Backspace
\* within row cy (cx > 0), leaves the raw bytes of every other row as they were.
C4_RowsOwnBytes ==
    [][(/\ OnRow(E)
        /\ KeyInsert \/ (KeyBackspace /\ E.cx > 0)
        /\ Ok(E'))
       => \A i \in 1..Len(E.rows) :
             i # E.cy + 1 =>
                Bytes(E'.heap, E'.rows[i].chars) = Bytes(E.heap, E.rows[i].chars)]_vars

\* C5: the dirty flag. In every reachable state dirty is true exactly when the
\* raw bytes of the rows differ from the content last saved, or loaded when
\* nothing was saved yet.
C5_DirtyIff == Ok(E) => (E.dirty <=> Contents(E) # saved)

\* C6: save and reload round trip. Writing the rows with writeRowsTo and
\* scanning the output line by line as editorOpen does gives back the rows,
\* byte for byte, whatever bytes the dispatcher inserted.
C6_RoundTrip ==
    Ok(E) => ScanLines(writeRowsTo(Contents(E)), <<>>, <<>>) = Contents(E)

\* C7: insert then delete is the identity. With the cursor on a row, inserting
\* a byte and then pressing Backspace restores the raw bytes of every row, the
\* row count and the cursor.
C7_InsertDelete ==
    phase = "deleted" =>
        /\ Ok(E)
        /\ Contents(E) = Contents(before)
        /\ E.numrows = before.numrows
        /\ E.cx = before.cx
        /\ E.cy = before.cy

\* C8: split then join is the identity. With the cursor on a row, Enter and
\* then Backspace restores the raw bytes of every row, the row count and the
\* cursor, and the render of every row is the tab expansion of its raw bytes.
C8_SplitJoin ==
    phase = "joined" =>
        /\ Ok(E)
        /\ Contents(E) = Contents(before)
        /\ E.numrows = before.numrows
        /\ E.cx = before.cx
        /\ E.cy = before.cy
        /\ \A i \in 1..Len(E.rows) :
              E.rows[i].render = Expand(Bytes(E.heap, E.rows[i].chars), <<>>)

\* C9: the viewport invariant. After every editorScroll that returns, from any
\* offsets, rowoff <= cy < rowoff + screenrows, coloff <= rx < coloff +
\* screencols, rx is CxToRx of the cursor (0 on the row past the end), and
\* both offsets are at least 0.
C9_Viewport ==
    Ok(E) =>
        /\ E.rowoff <= E.cy
        /\ E.cy < E.rowoff + E.screenrows
        /\ E.coloff <= E.rx
        /\ E.rx < E.coloff + E.screencols
        /\ E.rx = (IF E.cy < E.numrows
                   THEN CxToRx(E.heap, RowAt(E, E.cy), E.cx) ELSE 0)
        /\ E.rowoff >= 0
        /\ E.coloff >= 0

\* A scroll from forced offsets that had to move both of them, on a row.
C9_Witness ==
    /\ phase = "scrolled"
    /\ Ok(E)
    /\ E.cy < E.numrows
    /\ E.rowoff > 0
    /\ E.coloff > 0
    /\ E.rowoff # before.rowoff
    /\ E.coloff # before.coloff

\* C10: escape sequences decode by the table. ESC [ d ~ gives Delete, PageUp,
\* PageDown, Home, End for d = 3, 5, 6, 1 or 7, 4 or 8; ESC [ and A B C D H F
\* give Up, Down, Right, Left, Home, End; ESC O and H F give Home, End; every
\* other sequence, and every read that times out, gives the escape byte; a
\* first byte other than ESC is returned as it is.
C10_DecodeTable ==
    rk.pc = "done" =>
        rk.ret =
            IF rk.c # 27 THEN rk.c
            ELSE IF rk.seq = <<91, 51, 126>> THEN 1009
            ELSE IF rk.seq = <<91, 53, 126>> THEN 1005
            ELSE IF rk.seq = <<91, 54, 126>> THEN 1006
            ELSE IF rk.seq \in {<<91, 49, 126>>, <<91, 55, 126>>} THEN 1007
            ELSE IF rk.seq \in {<<91, 52, 126>>, <<91, 56, 126>>} THEN 1008
            ELSE IF rk.seq = <<91, 65>> THEN 1003
            ELSE IF rk.seq = <<91, 66>> THEN 1004
            ELSE IF rk.seq = <<91, 67>> THEN 1002
            ELSE IF rk.seq = <<91, 68>> THEN 1001
            ELSE IF rk.seq \in {<<91, 72>>, <<79, 72>>} THEN 1007
            ELSE IF rk.seq \in {<<91, 70>>, <<79, 70>>} THEN 1008
            ELSE 27

\* ESC [ 5 ~ was read and PageUp returned.
C10_Witness ==
    /\ rk.pc = "done"
    /\ rk.seq = <<91, 53, 126>>
    /\ rk.ret = PageUp

\* ------------------------------------------------------------ fatal errors
\* An event on the terminal is appended to its log.
Logged(t, ev) == [t EXCEPT !.log = Append(t.log, ev)]

\* restoreMode: the saved termios is set again.
restoreMode(t) == [Logged(t, "restore") EXCEPT !.mode = "cooked"]

\* A call of die is entered.
EnterDie ==
    /\ phase' = "die"
    /\ UNCHANGED <<saved, edits, before, rk, tty, find>>

\* editorReadKey in the loop of main: unix.Read fails with an error other
\* than EAGAIN.
FatalRead ==
    /\ Running
    /\ E' = E
    /\ EnterDie

\* editorSave with a file name set: opening, truncating, writing or closing
\* the file fails.
SaveFails ==
    /\ Running
    /\ E.filename # ""
    /\ E' = E
    /\ EnterDie

\* The editor as main has it before any key: nothing typed, the cursor at the
\* origin.
AtStart(s) == edits = 0 /\ s.cx = 0 /\ s.cy = 0 /\ s.rowoff = 0 /\ s.coloff = 0

\* editorOpen: the file cannot be opened or read; no row was loaded.
OpenFails ==
    /\ Running
    /\ AtStart(E)
    /\ E.numrows = 0
    /\ E' = [E EXCEPT !.filename = "f"]
    /\ EnterDie

\* getWindowSize, called by initEditor: the fallback write fails, or the
\* cursor position report cannot be read; the screen size is still zero.
WindowSizeFails ==
    /\ Running
    /\ AtStart(E)
    /\ E.numrows = 0
    /\ E.filename = ""
    /\ E' = [E EXCEPT !.screenrows = 0, !.screencols = 0]
    /\ EnterDie

\* die, its first statement: editorRefreshScreen draws the frame.
DieRefresh ==
    /\ phase = "die"
    /\ Ok(E)
    /\ E' = editorScroll(E)
    /\ tty' = Logged(tty, "frame")
    /\ phase' = "die_message"
    /\ UNCHANGED <<saved, edits, before, rk, find>>

\* die: the diagnostic message is written to the standard output.
DieWrite ==
    /\ phase = "die_message"
    /\ Ok(E)
    /\ tty' = Logged(tty, "message")
    /\ phase' = "die_exit"
    /\ UNCHANGED <<E, saved, edits, before, rk, find>>

\* die: unix.Exit(0). The deferred restoreMode of main does not run on Exit.
DieExit ==
    /\ phase = "die_exit"
    /\ tty' = Logged(tty, "exit")
    /\ phase' = "exited"
    /\ UNCHANGED <<E, saved, edits, before, rk, find>>

\* Ctrl-Q: the frame is drawn, the mode restored and the process exits.
KeyQuit ==
    /\ Running
    /\ E' = editorScroll(E)
    /\ tty' = Logged(restoreMode(Logged(tty, "frame")), "exit")
    /\ phase' = "exited"
    /\ UNCHANGED <<saved, edits, before, rk, find>>

NextDie ==
    \/ Next
    \/ FatalRead
    \/ SaveFails
    \/ OpenFails
    \/ WindowSizeFails
    \/ DieRefresh
    \/ DieWrite
    \/ DieExit
    \/ KeyQuit

SpecDie == Init /\ [][NextDie]_vars

\* C11: on every fatal-error path the raw-mode session is restored before the
\* process terminates: when the process has exited through die, the log of
\* the terminal holds a restore after the diagnostic message and before the
\* exit, and the terminal is no longer in raw mode.
C11_DieRestores ==
    (phase = "exited" /\ \E i \in 1..Len(tty.log) : tty.log[i] = "message") =>
        /\ tty.mode = "cooked"
        /\ \E i, j, k \in 1..Len(tty.log) :
              /\ i < j
              /\ j < k
              /\ tty.log[i] = "message"
              /\ tty.log[j] = "restore"
              /\ tty.log[k] = "exit"

\* ------------------------------------------------------------------ search
\* The printable bytes typed into the prompt.
PromptBytes == {49, 97}

\* unicode.IsPrint(rune(c)) && c < 128
IsPrint(c) == Space <= c /\ c < BackspaceKey

\* q[at:] starts with query (at is 0-based).
HasPrefixAt(q, query, at) ==
    /\ at + Len(query) <= Len(q)
    /\ \A k \in 1..Len(query) : q[at + k] = query[k]

\* bytes.Index(q[off:], query): the offset of the first occurrence, or -1.
RECURSIVE BytesIndex(_, _, _, _)
BytesIndex(q, query, off, i) ==
    IF off + i + Len(query) > Len(q) THEN 0 - 1
    ELSE IF HasPrefixAt(q, query, off + i) THEN i
    ELSE BytesIndex(q, query, off, i + 1)

\* A faulty inner loop: the scan goes on after the end of a hit, not one byte
\* after its start, and misses the occurrences that overlap it.
RECURSIVE ScanRowPastHit(_, _, _, _, _)
ScanRowPastHit(s, y, query, off, matches) ==
    LET r == RowAt(s, y)
        q == Bytes(s.heap, r.chars)
        i == BytesIndex(q, query, off, 0)
    IN  IF ~(off < Len(q)) \/ i < 0 THEN [s |-> s, matches |-> matches]
        ELSE LET mcx == off + i
                 rx == CxToRx(s.heap, r, mcx)
                 tagged == [x \in 1..Len(r.hl) |->
                               IF rx < x /\ x <= rx + Len(query)
                               THEN HighlightMatch ELSE r.hl[x]]
                 ms == Append(matches, [cx |-> mcx, cy |-> y])
             IN  IF rx + Len(query) > Len(r.hl)
                 THEN [s |-> Panic([s EXCEPT !.rows[y + 1].hl = tagged],
                                   "index out of range"),
                       matches |-> ms]
                 ELSE ScanRowPastHit([s EXCEPT !.rows[y + 1].hl = tagged],
                                     y, query, mcx + Len(query), ms)

\* The inner loop of the re-scan on row y of state s: each hit is recorded and
\* its rendered range tagged; r.hl[x] panics past the end of hl. The result is
\* [s, matches].
RECURSIVE ScanRow(_, _, _, _, _)
ScanRow(s, y, query, off, matches) ==
    LET r == RowAt(s, y)
        q == Bytes(s.heap, r.chars)
        i == BytesIndex(q, query, off, 0)
    IN  IF ~(off < Len(q)) \/ i < 0 THEN [s |-> s, matches |-> matches]
        ELSE LET mcx == off + i
                 rx == CxToRx(s.heap, r, mcx)
                 tagged == [x \in 1..Len(r.hl) |->
                               IF rx < x /\ x <= rx + Len(query)
                               THEN HighlightMatch ELSE r.hl[x]]
                 ms == Append(matches, [cx |-> mcx, cy |-> y])
             IN  IF rx + Len(query) > Len(r.hl)
                 THEN [s |-> Panic([s EXCEPT !.rows[y + 1].hl = tagged],
                                   "index out of range"),
                       matches |-> ms]
                 ELSE ScanRow([s EXCEPT !.rows[y + 1].hl = tagged],
                              y, query, mcx + 1, ms)

\* The re-scan: for every row from y on, UpdateSyntax clears the tags and the
\* row is scanned.
RECURSIVE Rescan(_, _, _, _)
Rescan(s, y, query, matches) ==
    IF y >= Len(s.rows) \/ ~Ok(s) THEN [s |-> s, matches |-> matches]
    ELSE LET cleared == [s EXCEPT !.rows[y + 1] = UpdateSyntax(s.rows[y + 1])]
             done == ScanRow(cleared, y, query, 0, <<>>)
         IN  Rescan(done.s, y + 1, query, matches \o done.matches)

\* The end of the callback: the match index is fixed and the cursor jumps to
\* the match; matches[matchidx] panics when the index is out of range. sf is
\* [s, f], the editor and the session.
FindJump(sf) ==
    LET s == sf.s
        f == sf.f
        n == Len(f.matches)
    IN  IF n = 0 \/ ~Ok(s) THEN [s |-> s, f |-> [f EXCEPT !.used = FALSE]]
        ELSE LET idx == IF f.matchidx < 0 THEN f.matchidx + n
                        ELSE f.matchidx % n
                 f1 == [f EXCEPT !.matchidx = idx, !.used = TRUE]
             IN  IF idx < 0 \/ idx >= n
                 THEN [s |-> Panic(s, "index out of range"), f |-> f1]
                 ELSE [s |-> [s EXCEPT !.cy = f.matches[idx + 1].cy,
                                       !.cx = f.matches[idx + 1].cx,
                                       !.rowoff = s.numrows],
                       f |-> f1]

\* The callback editorFind gives to editorPrompt, called with the input (kept
\* in f) and the key c.
FindCallback(s, f, c) ==
    LET idle == [s |-> s, f |-> [f EXCEPT !.used = FALSE]]
    IN  IF c \in {CarriageReturn, Escape} THEN idle
        ELSE IF c \in {ArrowUp, ArrowLeft}
        THEN FindJump([s |-> s, f |-> [f EXCEPT !.matchidx = f.matchidx - 1]])
        ELSE IF c \in {ArrowDown, ArrowRight}
        THEN FindJump([s |-> s, f |-> [f EXCEPT !.matchidx = f.matchidx + 1]])
        ELSE IF Len(f.input) = 0 THEN idle
        ELSE LET scan == Rescan(s, 0, f.input, <<>>)
             IN  FindJump([s |-> scan.s,
                           f |-> [f EXCEPT !.matches = scan.matches,
                                           !.query = f.input,
                                           !.hit = f.hit \/ Len(scan.matches) > 0]])

\* One turn of the loop of editorPrompt on a key that does not end the prompt:
\* the input is edited, the callback called, and the next turn's
\* editorRefreshScreen recomputes the scroll.
PromptKey(s, f, c) ==
    LET input == IF c \in {DeleteKey, controlKey(104), BackspaceKey}
                 THEN Take(f.input, IF Len(f.input) > 0 THEN Len(f.input) - 1 ELSE 0)
                 ELSE IF c # CarriageReturn /\ IsPrint(c)
                 THEN Append(f.input, c)
                 ELSE f.input
        sf == FindCallback(s, [f EXCEPT !.input = input], c)
        s1 == Collect(sf.s)
    IN  [s |-> IF Ok(s1) THEN editorScroll(s1) ELSE s1, f |-> sf.f]

\* A faulty return: rowoff is not among the values restored.
FindReturnKeepsRowoff(s, snap, ok) ==
    LET s1 == IF ok THEN s
              ELSE [s EXCEPT !.cx = snap.cx, !.cy = snap.cy,
                             !.coloff = snap.coloff]
        s2 == [s1 EXCEPT !.rows = [j \in 1..Len(s1.rows) |->
                                      UpdateSyntax(s1.rows[j])]]
    IN  editorScroll(s2)

\* A faulty return: the tags of the rows are left as the search set them.
FindReturnKeepsTags(s, snap, ok) ==
    LET s1 == IF ok THEN s
              ELSE [s EXCEPT !.cx = snap.cx, !.cy = snap.cy,
                             !.rowoff = snap.rowoff, !.coloff = snap.coloff]
    IN  editorScroll(s1)

\* editorFind after editorPrompt returned: the cursor and the offsets saved at
\* entry (in snap) are restored unless the prompt was committed, every row's
\* tags are recomputed, and the loop of main recomputes the scroll.
FindReturn(s, snap, ok) ==
    LET s1 == IF ok THEN s
              ELSE [s EXCEPT !.cx = snap.cx, !.cy = snap.cy,
                             !.rowoff = snap.rowoff, !.coloff = snap.coloff]
        s2 == [s1 EXCEPT !.rows = [j \in 1..Len(s1.rows) |->
                                      UpdateSyntax(s1.rows[j])]]
    IN  editorScroll(s2)

\* Ctrl-F: editorFind saves the cursor and the offsets and opens the prompt.
FindStart ==
    /\ Running
    /\ phase' = "find"
    /\ before' = E
    /\ find' = FindIdle
    /\ UNCHANGED <<E, saved, edits, rk, tty>>

InFind == phase = "find" /\ Ok(E)

\* A key in the prompt that does not end it: a printable byte, Backspace, an
\* arrow, a key with no meaning in the prompt (Tab), or Enter on an empty input.
FindKey ==
    /\ InFind
    /\ \E c \in PromptBytes \cup {BackspaceKey, ArrowUp, ArrowDown, Tab, CarriageReturn} :
          /\ c = CarriageReturn => Len(find.input) = 0
          /\ E' = PromptKey(E, find, c).s
          /\ find' = PromptKey(E, find, c).f
          /\ Len(find'.input) <= MaxInput
          /\ find'.matchidx <= MaxIdx
          /\ 0 - MaxIdx <= find'.matchidx
    /\ UNCHANGED <<saved, edits, phase, before, rk, tty>>

\* Escape or Ctrl-Q in the prompt: editorPrompt returns false.
FindCancel ==
    /\ InFind
    /\ E' = FindReturn(E, before, FALSE)
    /\ phase' = "found"
    /\ find' = [find EXCEPT !.ok = FALSE]
    /\ UNCHANGED <<saved, edits, before, rk, tty>>

\* Enter on a non-empty input: the callback is called with Enter and returns,
\* and editorPrompt returns true.
FindCommit ==
    /\ InFind
    /\ Len(find.input) # 0
    /\ E' = FindReturn(E, before, TRUE)
    /\ phase' = "found"
    /\ find' = [find EXCEPT !.ok = TRUE]
    /\ UNCHANGED <<saved, edits, before, rk, tty>>

\* The files searched: "\t1\n", "a\n\na", "aaa\n" and "\ta1\n1a".
FindFiles == Files \cup {<<97, 97, 97, 10>>, <<9, 97, 49, 10, 49, 97>>}

\* main up to the loop, on a file to search.
InitFind ==
    /\ \E build \in Builds, data \in FindFiles :
          /\ E = Collect(editorScroll(editorOpen(InitEditor(build), "f", data)))
          /\ saved = ScanLines(data, <<>>, <<>>)
    /\ edits = 0
    /\ phase = "edit"
    /\ before = <<>>
    /\ rk = ReadKeyIdle
    /\ tty = TtyStart
    /\ find = FindIdle

NextFind ==
    \/ KeyArrow
    \/ KeyHome
    \/ KeyEnd
    \/ FindStart
    \/ FindKey
    \/ FindCancel
    \/ FindCommit

SpecFind == InitFind /\ [][NextFind]_vars

\* C12: the re-scan finds every occurrence. After a re-scan for a non-empty
\* query, the match list holds exactly the positions (cx, cy) where the query
\* occurs in the raw bytes of row cy, overlapping occurrences included, in
\* ascending order of cy and then cx, none twice.
C12_RescanFindsAll ==
    (phase = "find" /\ Len(find.query) > 0) =>
        LET rows == Contents(E)
            q == find.query
            m == find.matches
            occurs(x, y) ==
                /\ x + Len(q) <= Len(rows[y + 1])
                /\ SubSeq(rows[y + 1], x + 1, x + Len(q)) = q
        IN  /\ \A i \in 1..Len(m) :
                  /\ 0 <= m[i].cy
                  /\ m[i].cy < Len(rows)
                  /\ 0 <= m[i].cx
                  /\ occurs(m[i].cx, m[i].cy)
            /\ \A y \in 0..(Len(rows) - 1) :
                  \A x \in 0..(Len(rows[y + 1]) - 1) :
                      occurs(x, y) =>
                          \E i \in 1..Len(m) : m[i].cx = x /\ m[i].cy = y
            /\ \A i, j \in 1..Len(m) :
                  i < j =>
                      \/ m[i].cy < m[j].cy
                      \/ m[i].cy = m[j].cy /\ m[i].cx < m[j].cx

\* The query "aa" was searched in the row "aaa": two occurrences that overlap.
C12_Witness ==
    /\ phase = "find"
    /\ Ok(E)
    /\ find.query = <<97, 97>>
    /\ find.matches = <<[cx |-> 0, cy |-> 0], [cx |-> 1, cy |-> 0]>>

\* C13: the cyclic match index stays in range. Whenever the match list is not
\* empty and the callback selects a match, 0 <= matchidx < len(matches).
C13_IndexInRange ==
    (phase = "find" /\ find.used) =>
        /\ 0 <= find.matchidx
        /\ find.matchidx < Len(find.matches)

\* C14: cancelling the search restores the snapshot. After a session ended by
\* Escape or Ctrl-Q, cx, cy, rowoff and coloff have the values they had when the
\* session began, and the raw bytes of the rows and the row count are as before.
C14_CancelRestores ==
    (phase = "found" /\ ~find.ok) =>
        /\ Ok(E)
        /\ E.cx = before.cx
        /\ E.cy = before.cy
        /\ E.rowoff = before.rowoff
        /\ E.coloff = before.coloff
        /\ E.numrows = before.numrows
        /\ Contents(E) = Contents(before)

\* A cancelled session in which the cursor had jumped to a match away from
\* where the session began.
C14_Witness ==
    /\ phase = "found"
    /\ ~find.ok
    /\ find.used
    /\ find.matchidx < Len(find.matches)
    /\ find.matches[find.matchidx + 1].cy # before.cy
    /\ find.matches[find.matchidx + 1].cx # before.cx
    /\ before.rowoff > 0

\* C15: no Match tag outlives a search session. Outside a session, the tags of
\* every row over its rendered bytes are Normal or Number, and Number exactly
\* on the digits.
C15_NoMatchOutside ==
    (phase # "find" /\ Ok(E)) =>
        \A j \in 1..Len(E.rows) :
            /\ Len(E.rows[j].hl) >= Len(E.rows[j].render)
            /\ \A x \in 1..Len(E.rows[j].render) :
                  E.rows[j].hl[x] =
                      IF 48 <= E.rows[j].render[x] /\ E.rows[j].render[x] <= 57
                      THEN HighlightNumber ELSE HighlightNormal

\* A committed session that had tagged a match.
C15_Witness ==
    /\ phase = "found"
    /\ find.ok
    /\ find.hit
    /\ find.used

\* C16: unassigned control bytes are ignored. A control byte with no case in the
\* dispatcher (here Ctrl-J) leaves the rows, the row count, the cursor and the
\* dirty flag as they were.
C16_ControlIgnored ==
    [][KeyControl =>
          /\ Ok(E')
          /\ Contents(E') = Contents(E)
          /\ E'.numrows = E.numrows
          /\ E'.cx = E.cx
          /\ E'.cy = E.cy
          /\ E'.dirty = E.dirty]_vars

\* ------------------------------------------------------- single-key probes
\* After Enter, a byte is typed on the new row.
ProbeType ==
    /\ phase = "split"
    /\ Ok(E)
    /\ \E c \in InsertBytes : E' = Turn(E, c)
    /\ phase' = "typed"
    /\ UNCHANGED <<saved, edits, before, rk, tty, find>>

NextSplitType == Next \/ ProbeEnter \/ ProbeType

SpecSplitType == Init /\ [][NextSplitType]_vars

\* C17: Enter splits the row. With the cursor on a row, after Enter the row
\* count is one greater, the rows before cy and the rows after it (shifted by
\* one) have their raw bytes, row cy holds the bytes before cx and row cy+1 the
\* bytes from cx on, the cursor is at (0, cy+1) and dirty is true. In a file
\* just opened, End, Enter and a typed byte give one more row, holding that
\* byte, after row cy, and leave every other row as it was.
C17_EnterSplits ==
    LET old == Contents(before)
        new == Contents(E)
        cy == before.cy
        cx == before.cx
    IN  /\ phase = "split" =>
              /\ Ok(E)
              /\ E.numrows = before.numrows + 1
              /\ Len(new) = Len(old) + 1
              /\ \A i \in 1..cy : new[i] = old[i]
              /\ \A i \in (cy + 2)..Len(old) : new[i + 1] = old[i]
              /\ new[cy + 1] = SubSeq(old[cy + 1], 1, cx)
              /\ new[cy + 2] = SubSeq(old[cy + 1], cx + 1, Len(old[cy + 1]))
              /\ E.cx = 0
              /\ E.cy = cy + 1
              /\ E.dirty
        /\ (phase = "typed" /\ edits = 0 /\ cx = Len(old[cy + 1])) =>
              /\ Ok(E)
              /\ E.numrows = before.numrows + 1
              /\ Len(new) = Len(old) + 1
              /\ \A i \in 1..(cy + 1) : new[i] = old[i]
              /\ \A i \in (cy + 2)..Len(old) : new[i + 1] = old[i]
              /\ Len(new[cy + 2]) = 1
              /\ new[cy + 2][1] \in InsertBytes
              /\ E.dirty

\* Enter in the middle of a row that other rows follow.
C17_Witness ==
    /\ phase = "split"
    /\ before.cx > 0
    /\ before.cx < RowLen(RowAt(before, before.cy))
    /\ before.cy + 1 < before.numrows

\* ------------------------------------------------------------ single rows
\* The bytes of the rows loaded: a tab, a digit and a letter.
RowBytes == {9, 49, 97}

\* The sequences over a set of bytes of length n, and of length up to n.
RECURSIVE SeqsOfLen(_, _)
SeqsOfLen(S, n) ==
    IF n = 0 THEN {<<>>}
    ELSE {Append(q, b) : q \in SeqsOfLen(S, n - 1), b \in S}

SeqsUpTo(S, n) == UNION {SeqsOfLen(S, k) : k \in 0..n}

\* main up to the loop, on a file of one line.
InitRow ==
    /\ \E build \in Builds, q \in SeqsUpTo(RowBytes, MaxRowLen) :
          /\ E = Collect(editorScroll(editorOpen(InitEditor(build), "f",
                                                 Append(q, Newline))))
          /\ saved = <<q>>
    /\ edits = 0
    /\ phase = "edit"
    /\ before = <<>>
    /\ rk = ReadKeyIdle
    /\ tty = TtyStart
    /\ find = FindIdle

NextRow == KeyArrow \/ KeyHome \/ KeyEnd

SpecRow == InitRow /\ [][NextRow]_vars

ProbeBack ==
    /\ Running
    /\ E' = Turn(E, BackspaceKey)
    /\ before' = E
    /\ phase' = "backspace"
    /\ UNCHANGED <<saved, edits, rk, tty, find>>

NextBackspace == Next \/ ProbeBack

SpecBackspace == Init /\ [][NextBackspace]_vars

\* C19: Backspace. With cx > 0 on a row, exactly the byte at column cx-1 of row
\* cy is removed and the cursor becomes (cx-1, cy). With cx = 0 on a row other
\* than the first, row cy-1 becomes row cy-1 followed by row cy, row cy is
\* removed, the later rows shift up unchanged and the cursor becomes
\* (len(old row cy-1), cy-1). At (0, 0) and on the row past the end, rows, row
\* count and cursor are unchanged.
C19_Backspace ==
    phase = "backspace" =>
        LET old == Contents(before)
            new == Contents(E)
            cx == before.cx
            cy == before.cy
            n == before.numrows
        IN  /\ Ok(E)
            /\ (cx > 0 /\ cy < n) =>
                  /\ E.numrows = n
                  /\ Len(new) = Len(old)
                  /\ \A i \in 1..Len(old) : i # cy + 1 => new[i] = old[i]
                  /\ new[cy + 1] = SubSeq(old[cy + 1], 1, cx - 1)
                                   \o SubSeq(old[cy + 1], cx + 1, Len(old[cy + 1]))
                  /\ Len(new[cy + 1]) = Len(old[cy + 1]) - 1
                  /\ E.cx = cx - 1
                  /\ E.cy = cy
            /\ (cx = 0 /\ 0 < cy /\ cy < n) =>
                  /\ E.numrows = n - 1
                  /\ Len(new) = Len(old) - 1
                  /\ \A i \in 1..(cy - 1) : new[i] = old[i]
                  /\ new[cy] = old[cy] \o old[cy + 1]
                  /\ \A i \in (cy + 2)..Len(old) : new[i - 1] = old[i]
                  /\ E.cx = Len(old[cy])
                  /\ E.cy = cy - 1
            /\ ((cx = 0 /\ cy = 0) \/ cy = n) =>
                  /\ E.numrows = n
                  /\ new = old
                  /\ E.cx = cx
                  /\ E.cy = cy

\* The Delete key, from any state of the editor.
ProbeDel ==
    /\ Running
    /\ E' = Turn(E, DeleteKey)
    /\ before' = E
    /\ phase' = "delkey"
    /\ UNCHANGED <<saved, edits, rk, tty, find>>

NextDeleteKey == Next \/ ProbeDel

SpecDeleteKey == Init /\ [][NextDeleteKey]_vars

\* C20: the Delete key deletes forward only. With the cursor at (cx, cy) on a
\* row, Delete removes the byte at column cx when cx < len(row), or joins row
\* cy+1 onto the end of row cy when cx = len(row) and row cy+1 exists; it
\* changes no byte before the cursor, in row cy or in an earlier row, and
\* leaves the cursor at (cx, cy).
C20_DeleteForward ==
    (phase = "delkey" /\ before.cy < before.numrows) =>
        LET old == Contents(before)
            new == Contents(E)
            cx == before.cx
            cy == before.cy
            len == Len(old[cy + 1])
        IN  /\ Ok(E)
            /\ E.cx = cx
            /\ E.cy = cy
            /\ Len(new) >= cy + 1
            /\ \A i \in 1..cy : new[i] = old[i]
            /\ cx <= len => SubSeq(new[cy + 1], 1, cx) = SubSeq(old[cy + 1], 1, cx)
            /\ cx < len =>
                  /\ Len(new) = Len(old)
                  /\ new[cy + 1] = SubSeq(old[cy + 1], 1, cx)
                                   \o SubSeq(old[cy + 1], cx + 2, len)
            /\ (cx = len /\ cy + 1 < before.numrows) =>
                  /\ Len(new) = Len(old) - 1
                  /\ new[cy + 1] = old[cy + 1] \o old[cy + 2]


\* C21: Match tags always reflect the current query. After each prompt key that
\* changes the query (a byte appended, or the last byte removed, the only byte
\* included), the rendered positions tagged Match are exactly the ranges
\* [CxToRx(cx), CxToRx(cx) + len(query)) over the occurrences of the current
\* query in the raw bytes of the rows (none for the empty query), none is left
\* from the previous query, and every tagged index lies within the rendered
\* length of its row.
C21_TagsFollowQuery ==
    [][(phase = "find" /\ phase' = "find" /\ find'.input # find.input) =>
          LET s == E'
              query == find'.input
              range(j) ==
                  LET r == s.rows[j]
                      q == Bytes(s.heap, r.chars)
                  IN  IF Len(query) = 0 THEN {}
                      ELSE {x \in 0..(Len(r.hl) + Len(query)) :
                              \E cx \in 0..(Len(q) - 1) :
                                  /\ HasPrefixAt(q, query, cx)
                                  /\ CxToRx(s.heap, r, cx) <= x
                                  /\ x < CxToRx(s.heap, r, cx) + Len(query)}
          IN  /\ Ok(s)
              /\ \A j \in 1..Len(s.rows) :
                    /\ {x \in 0..(Len(s.rows[j].hl) - 1) :
                           s.rows[j].hl[x + 1] = HighlightMatch} = range(j)
                    /\ \A x \in range(j) : x < Len(s.rows[j].render)]_vars

\* ----------------------------------------------------------------- drawing
\* "Kilo editor -- version 0.0.1"
Welcome ==
    <<75, 105, 108, 111, 32, 101, 100, 105, 116, 111, 114, 32, 45, 45, 32,
      118, 101, 114, 115, 105, 111, 110, 32, 48, 46, 48, 46, 49>>

\* The parameter of the code "\x1b[39m" (default foreground).
DefaultColor == 39

editorSyntaxToColor(hl) ==
    IF hl = HighlightNumber THEN 31
    ELSE IF hl = HighlightMatch THEN 34
    ELSE 37

\* A byte written with no colour code before it.
Plain(q) == [k \in 1..Len(q) |-> [codes |-> <<>>, byte |-> q[k], hl |-> HighlightNormal]]

\* The colour loop of editorDrawRows over line, the slice of the rendered row
\* that starts at coloff: turn i reads the tag hl[i+coloff], writes the colour
\* codes it decides on and then the byte. A turn is recorded as
\* [codes, byte, hl]; a tag index past the end of hl ends the loop.
RECURSIVE ColorLoop(_, _, _, _, _, _)
ColorLoop(line, hl, coloff, i, prevcolor, out) ==
    IF i >= Len(line) \/ i + coloff >= Len(hl) THEN out
    ELSE LET h == hl[i + coloff + 1]
             color == editorSyntaxToColor(h)
             codes == IF h = HighlightNormal THEN <<DefaultColor>>
                      ELSE IF color # prevcolor THEN <<color>>
                      ELSE <<>>
             prev == IF h = HighlightNormal THEN 0 - 1 ELSE color
         IN  ColorLoop(line, hl, coloff, i + 1, prev,
                       Append(out, [codes |-> codes, byte |-> line[i + 1], hl |-> h]))

\* One turn of the loop of editorDrawRows, for screen row y: what is written
\* before "\x1b[K\r\n". cells are the bytes with the codes written before
\* each, reset the codes written after the last byte.
DrawRow(s, y) ==
    LET filerow == y + s.rowoff
    IN  IF filerow >= s.numrows
        THEN IF s.numrows = 0 /\ y = s.screenrows \div 3
             THEN LET welcome == Take(Welcome, Min(Len(Welcome), s.screencols))
                      padding == (s.screencols - Len(welcome)) \div 2
                  IN  [cells |-> Plain([k \in 1..padding |-> Space] \o welcome),
                       reset |-> <<>>]
             ELSE [cells |-> Plain(<<126>>), reset |-> <<>>]
        ELSE LET row == RowAt(s, filerow)
                 coloff == IF s.coloff >= Len(row.render) THEN 0 ELSE s.coloff
                 from == Drop(row.render, coloff)
                 line == Take(from, Min(Len(from), s.screencols))
             IN  [cells |-> ColorLoop(line, row.hl, coloff, 0, 0, <<>>),
                  reset |-> <<DefaultColor>>]

editorDrawRows(s) == [y \in 1..s.screenrows |-> DrawRow(s, y - 1)]

\* editorRefreshScreen at the top of the loop of main: the scroll is
\* recomputed and the rows are drawn; the frame is what the terminal received.
DrawFrame ==
    /\ Running
    /\ E' = editorScroll(E)
    /\ tty' = Logged(tty, editorDrawRows(editorScroll(E)))
    /\ phase' = "drawn"
    /\ UNCHANGED <<saved, edits, before, rk, find>>

NextDraw == Next \/ DrawFrame

SpecDraw == Init /\ [][NextDraw]_vars

\* C22: row drawing honours the column offset. For every visible document row,
\* the bytes drawn are render[coloff .. min(len(render), coloff+screencols)),
\* nothing when coloff >= len(render), and the colour in effect at each drawn
\* byte is that of the tag at the same rendered index.
C22_DrawHonoursColoff ==
    (phase = "drawn" /\ Ok(E)) =>
        \A y \in 1..E.screenrows :
            (y - 1 + E.rowoff < E.numrows) =>
                LET row == RowAt(E, y - 1 + E.rowoff)
                    cells == tty.log[Len(tty.log)][y].cells
                    upto == Min(Len(row.render), E.coloff + E.screencols)
                    want == SubSeq(row.render, E.coloff + 1, upto)
                    ineffect[k \in 0..Len(cells)] ==
                        IF k = 0 THEN 0
                        ELSE IF cells[k].codes # <<>>
                        THEN cells[k].codes[Len(cells[k].codes)]
                        ELSE ineffect[k - 1]
                IN  /\ [k \in 1..Len(cells) |-> cells[k].byte] = want
                    /\ \A k \in 1..Len(cells) :
                          ineffect[k] =
                              IF row.hl[E.coloff + k] = HighlightNormal
                              THEN DefaultColor
                              ELSE editorSyntaxToColor(row.hl[E.coloff + k])

\* C24: colour codes are written only on tag changes. In the drawn slice of a
\* visible document row, a colour code precedes a byte exactly when the byte is
\* the first drawn or its tag differs from the tag of the byte drawn before
\* it: a run of bytes with one tag has one code before it, not one per byte.
C24_CodesOnChange ==
    (phase = "drawn" /\ Ok(E)) =>
        \A y \in 1..E.screenrows :
            (y - 1 + E.rowoff < E.numrows) =>
                LET cells == tty.log[Len(tty.log)][y].cells
                IN  \A k \in 1..Len(cells) :
                        Len(cells[k].codes) =
                            IF k = 1 \/ cells[k].hl # cells[k - 1].hl
                            THEN 1 ELSE 0

\* ----------------------------------------------------------------- save as
\* string(input) for an input typed from PromptBytes.
RECURSIVE String(_)
String(q) ==
    IF Len(q) = 0 THEN ""
    ELSE String(Take(q, Len(q) - 1)) \o (IF q[Len(q)] = 49 THEN "1" ELSE "a")

\* One turn of the loop of editorPrompt with no callback, on a key that does
\* not end the prompt: the input after the key.
PromptEdit(input, c) ==
    IF c \in {DeleteKey, controlKey(104), BackspaceKey}
    THEN IF Len(input) > 0 THEN Take(input, Len(input) - 1) ELSE input
    ELSE IF c # CarriageReturn /\ IsPrint(c)
    THEN Append(input, c)
    ELSE input

\* A faulty editorSave: a cancelled prompt still clears the dirty flag.
SaveAsReturnClearsDirty(s, input, ok) ==
    IF ~ok THEN editorSave(s)
    ELSE editorSave([s EXCEPT !.filename = String(input)])

\* editorSave after the prompt returned (input, ok): nothing on a cancel,
\* else the name is set and the rows are saved.
SaveAsReturn(s, input, ok) ==
    IF ~ok THEN s
    ELSE editorSave([s EXCEPT !.filename = String(input)])

\* Ctrl-S with no file name: editorSave opens the prompt "Save as:".
SaveAsStart ==
    /\ Running
    /\ E.filename = ""
    /\ E' = editorScroll(E)
    /\ phase' = "saveas"
    /\ before' = E
    /\ find' = FindIdle
    /\ UNCHANGED <<saved, edits, rk, tty>>

\* A key in the prompt that does not end it: a printable byte, Backspace,
\* Delete, an arrow, Tab, or Enter on an empty input.
SaveAsKey ==
    /\ phase = "saveas"
    /\ Ok(E)
    /\ \E c \in PromptBytes \cup {BackspaceKey, DeleteKey, ArrowUp, Tab, CarriageReturn} :
          /\ c = CarriageReturn => Len(find.input) = 0
          /\ find' = [find EXCEPT !.input = PromptEdit(find.input, c)]
          /\ Len(find'.input) <= MaxInput
    /\ E' = editorScroll(E)
    /\ UNCHANGED <<saved, edits, phase, before, rk, tty>>

\* Escape or Ctrl-Q in the prompt: editorPrompt returns false and editorSave
\* returns.
SaveAsCancel ==
    /\ phase = "saveas"
    /\ Ok(E)
    /\ E' = editorScroll(SaveAsReturn(E, find.input, FALSE))
    /\ phase' = "saved_as"
    /\ find' = [find EXCEPT !.ok = FALSE]
    /\ UNCHANGED <<saved, edits, before, rk, tty>>

\* Enter on a non-empty input: the file of that name is opened, truncated,
\* written with every row and closed.
SaveAsCommit ==
    /\ phase = "saveas"
    /\ Ok(E)
    /\ Len(find.input) # 0
    /\ E' = editorScroll(SaveAsReturn(E, find.input, TRUE))
    /\ saved' = Contents(E)
    /\ tty' = Logged(Logged(Logged(Logged(tty, "open"), "truncate"),
                            "write"), "close")
    /\ phase' = "saved_as"
    /\ find' = [find EXCEPT !.ok = TRUE]
    /\ UNCHANGED <<edits, before, rk>>

NextSaveAs ==
    \/ KeyArrow
    \/ KeyEnter
    \/ KeyInsert
    \/ SaveAsStart
    \/ SaveAsKey
    \/ SaveAsCancel
    \/ SaveAsCommit

SpecSaveAs == Init /\ [][NextSaveAs]_vars

\* C23: cancelling the save-as prompt aborts the save. After Ctrl-S with no
\* file name, a prompt ended by Escape or Ctrl-Q opens, truncates and writes
\* no file and leaves the file name empty, the dirty flag, the rows and the
\* cursor as they were; a prompt committed with a non-empty name sets the
\* file name to it, writes every row and clears the dirty flag.
C23_CancelAbortsSave ==
    (phase = "saved_as") =>
        /\ Ok(E)
        /\ Contents(E) = Contents(before)
        /\ E.numrows = before.numrows
        /\ E.cx = before.cx
        /\ E.cy = before.cy
        /\ ~find.ok =>
              /\ tty.log = <<>>
              /\ E.filename = ""
              /\ E.dirty = before.dirty
        /\ find.ok =>
              /\ Len(find.input) > 0
              /\ E.filename = String(find.input)
              /\ E.filename # ""
              /\ tty.log = <<"open", "truncate", "write", "close">>
              /\ saved = Contents(before)
              /\ ~E.dirty

\* A prompt cancelled after a name was typed, on an edited document.
C23_Witness ==
    /\ phase = "saved_as"
    /\ ~find.ok
    /\ Len(find.input) > 0
    /\ before.dirty
    /\ before.numrows > 1

====
